---- MODULE Spec2Model ----
(***************************************************************************)
(* Feedback route of the GIKI admissions assistant (src/app/page.tsx,      *)
(* lines 53-272): the module-level state (credentials, memoized            *)
(* spreadsheet id, lazily built Sheets client), the on-disk id cache, the  *)
(* Google Sheets service the route talks to, and the POST handler run by   *)
(* concurrent requests.  One action is one resumption of a request: the    *)
(* answer of the call it was awaiting, together with the synchronous code  *)
(* up to the next await.                                                   *)
(*                                                                         *)
(* A string is a sequence of tokens; the token " " is white space, so that *)
(* String.prototype.trim and the truthiness of a string are computed.      *)
(***************************************************************************)
EXTENDS Integers, Sequences, FiniteSets, TLC

\* ------------------------------------------------------------- bounds
MaxSubmissions == 2     \* submissions started over a run
MaxCreated == 2         \* spreadsheets the service can still hand out
MaxEnvChanges == 1      \* out-of-band changes of a spreadsheet's accessibility

\* ------------------------------------------------------------- strings
WS == " "
EmptyStr == <<>>

RECURSIVE TrimStart(_)
TrimStart(s) == IF s # <<>> /\ Head(s) = WS THEN TrimStart(Tail(s)) ELSE s

RECURSIVE TrimEnd(_)
TrimEnd(s) ==
    IF s # <<>> /\ s[Len(s)] = WS THEN TrimEnd(SubSeq(s, 1, Len(s) - 1)) ELSE s

\* String.prototype.trim
Trim(s) == TrimEnd(TrimStart(s))

\* a JavaScript string is truthy iff it is not empty
Truthy(s) == s # EmptyStr

\* ------------------------------------------------------------- identifiers
Requests == {"r1", "r2"}

\* identifiers that exist before the process starts: "sA" names a spreadsheet
\* that has existed, "sX" names nothing (a mistyped or rotted value)
OldSheet == <<"sA">>
Garbage == <<"sX">>
FreshNames == <<"n1", "n2", "n3", "n4">>
FreshIds == {<<FreshNames[i]>> : i \in 1..MaxCreated}
SheetIds == {OldSheet} \cup FreshIds

NoFile == <<"ENOENT">>

\* ------------------------------------------------------------- constants of the route
TAB_NAME == <<"Feedback">>

HEADER ==
    << <<"timestamp">>, <<"feedbackType">>, <<"userComment">>, <<"lastQuestion">>,
       <<"lastResponse">>, <<"fullConversation">>, <<"sessionId">>, <<"Type">> >>

MissingCredentialsMessage ==
    <<"Google Sheets feedback integration is missing required credentials (GOOGLE_SHEETS_CREDENTIALS).">>
FeedbackTypeMessage == <<"feedbackType must be \"positive\" or \"negative\".">>
CreateFailedMessage == <<"Failed to auto-create fallback spreadsheet.">>
InvalidTimeMessage == <<"Invalid time value">>
ServiceErrorMessage == <<"service error">>
FileErrorMessage == <<"file system error">>

\* ------------------------------------------------------------- dates
NaN == -1
NowInstant == 2
IsoOf1 == <<"2024-01-01T00:00:00.000Z">>
IsoOf2 == <<"2024-01-02T00:00:00.000Z">>

\* new Date(s): the instant a string denotes, NaN when it cannot be parsed
DateParse(s) ==
    IF s = IsoOf1 \/ s = <<"Mon, 01 Jan 2024 00:00:00 GMT">> THEN 1
    ELSE IF s = IsoOf2 THEN 2
    ELSE NaN

\* Date.prototype.toISOString of a valid instant
ToISOString(t) == IF t = 1 THEN IsoOf1 ELSE IsoOf2

\* ------------------------------------------------------------- payloads
\* req.json(): "has" holds the fields present in the body
BasePayload ==
    [has |-> {}, feedbackType |-> EmptyStr, userComment |-> EmptyStr,
     lastQuestion |-> EmptyStr, lastResponse |-> EmptyStr, sessionId |-> EmptyStr,
     type |-> EmptyStr, admissionsType |-> EmptyStr, timestamp |-> EmptyStr,
     convIsArray |-> FALSE, conv |-> <<>>]

Payloads ==
    { [BasePayload EXCEPT
         !.has = {"feedbackType", "userComment", "lastQuestion", "lastResponse", "sessionId"},
         !.feedbackType = <<"negative">>, !.userComment = <<"too vague">>,
         !.lastQuestion = <<"fees?">>, !.lastResponse = <<"...">>,
         !.sessionId = <<"s1">>],
      [BasePayload EXCEPT
         !.has = {"feedbackType", "sessionId", "admissionsType", "timestamp", "fullConversation"},
         !.feedbackType = <<WS, "positive", WS>>, !.sessionId = <<"s2">>,
         !.admissionsType = <<"grad", WS>>,
         !.timestamp = <<WS, "Mon, 01 Jan 2024 00:00:00 GMT">>,
         !.convIsArray = TRUE, !.conv = <<"turn1">>],
      [BasePayload EXCEPT
         !.has = {"feedbackType", "timestamp"},
         !.feedbackType = <<"positive">>, !.timestamp = <<"yesterday">>],
      [BasePayload EXCEPT
         !.has = {"feedbackType", "userComment"},
         !.feedbackType = <<"neutral">>, !.userComment = <<"meh">>],
      [BasePayload EXCEPT !.has = {"feedbackType"}, !.feedbackType = <<WS>>],
      [BasePayload EXCEPT !.has = {"userComment"}, !.userComment = <<"no type">>] }

\* (payload.f || "").toString()
OrEmpty(p, f) == IF f \in p.has /\ Truthy(p[f]) THEN p[f] ELSE EmptyStr

feedbackTypeOf(p) == Trim(OrEmpty(p, "feedbackType"))
typeLabelOf(p) ==
    Trim(IF Truthy(OrEmpty(p, "type")) THEN OrEmpty(p, "type")
         ELSE OrEmpty(p, "admissionsType"))
providedTimestampOf(p) == Trim(OrEmpty(p, "timestamp"))
fullConversationOf(p) ==
    IF "fullConversation" \in p.has /\ p.convIsArray THEN p.conv ELSE <<>>

\* JSON.stringify of an array of turns
JSONStringify(a) == <<"[">> \o a \o <<"]">>

\* a check that only asks for a non-empty feedbackType
ValidFeedbackType_NonEmptyOnly(p) == Truthy(feedbackTypeOf(p))

\* line 239
ValidFeedbackType(p) ==
    Truthy(feedbackTypeOf(p)) /\ feedbackTypeOf(p) \in {<<"positive">>, <<"negative">>}

\* a handler in which line 243 never throws
TimestampThrows_Never(p) == FALSE

\* line 243: does new Date(providedTimestamp).toISOString() throw a RangeError
TimestampThrows(p) ==
    Truthy(providedTimestampOf(p)) /\ DateParse(providedTimestampOf(p)) = NaN

timestampOf(p) ==
    IF Truthy(providedTimestampOf(p))
    THEN ToISOString(DateParse(providedTimestampOf(p)))
    ELSE ToISOString(NowInstant)

\* a row whose comment and question columns are swapped
RowOf_SwappedColumns(p) ==
    << timestampOf(p), feedbackTypeOf(p), OrEmpty(p, "lastQuestion"),
       OrEmpty(p, "userComment"), OrEmpty(p, "lastResponse"),
       JSONStringify(fullConversationOf(p)), OrEmpty(p, "sessionId"), typeLabelOf(p) >>

\* line 256: the row handed to values.append
RowOf(p) ==
    << timestampOf(p), feedbackTypeOf(p), OrEmpty(p, "userComment"),
       OrEmpty(p, "lastQuestion"), OrEmpty(p, "lastResponse"),
       JSONStringify(fullConversationOf(p)), OrEmpty(p, "sessionId"), typeLabelOf(p) >>

\* ------------------------------------------------------------- state
VARIABLES
    credentials,            \* line 61-69: were the credentials parsed
    ENV_SPREADSHEET_ID,     \* line 75
    cachedSpreadsheetId,    \* line 78: the memoized identifier
    sheetsClientPromise,    \* line 79: TRUE once the client was built
    cacheFile,              \* contents of .feedback-sheet-id.cache, NoFile if absent
    sheets,                 \* the service: spreadsheet id -> its state
    envChanges,             \* out-of-band accessibility changes so far
    nsub,                   \* submissions started so far
    pc,                     \* per request: the await it is suspended at
    payload,                \* per request: the parsed body
    pending,                \* per request: the identifier of the call in flight
    spreadsheetId,          \* per request: line 248, the resolved identifier
    resp,                   \* per request: the response returned
    touched,                \* per request: did it issue any external operation
    stages,                 \* per request: the stages it ended, in order, with their outcome
    staleId,                \* per request: the memoized identifier whose check failed in
                            \* the resolution it is running
    nAppended,              \* per request: rows the service accepted from it
    accepted,               \* per spreadsheet: the submissions whose append was accepted
    bare,                   \* per spreadsheet: was a row appended while row 1 was no header
    issued,                 \* per request: the create, batchUpdate and append calls answered
    ensured,                \* per spreadsheet: has an ensureSheetTab call on it returned
    after,                  \* per request: ensured of its spreadsheet when its
                            \* ensureSheetTab call started
    lastResolved,           \* identifier returned by the latest resolution that ran alone
                            \* and was followed by no failure or out-of-band change
    prev                    \* per request: lastResolved when its resolution began, or
                            \* the mark Overlapped

\* ------------------------------------------------------------- the chat page
\* src/unnamed/part_000, ChatPageContent.  React renders after every event
\* before it delivers the next one, so a handler reads the state its event was
\* dispatched in, and a control that the render disabled or left out cannot fire.
MaxExchanges == 1       \* questions asked in the chat

Greeting == <<"You are now chatting with the assistant.">>
Question == <<"q">>
AnswerText == <<"a">>
Apology == <<"Sorry, there was an error talking to the admissions assistant.">>
Inputs == {EmptyStr, <<WS>>, <<WS>> \o Question}
Comments == {EmptyStr, <<WS>>, <<"c">>, <<WS, "c">>}

ImproveMessage == <<"Please share how we can improve this response.">>
SubmitFailedMessage == <<"Failed to submit feedback.">>
UnableMessage == <<"Unable to send feedback right now. Please try again.">>
FetchFailedMessage == <<"Failed to fetch">>

\* what the awaited fetch of line 658 can produce: a response with its status
\* class and the error field of its body, or a rejection with its message
Answers ==
    { [kind |-> "response", ok |-> TRUE, error |-> EmptyStr],
      [kind |-> "response", ok |-> FALSE, error |-> ServiceErrorMessage],
      [kind |-> "response", ok |-> FALSE, error |-> EmptyStr],
      [kind |-> "rejected", ok |-> FALSE, error |-> FetchFailedMessage],
      [kind |-> "rejected", ok |-> FALSE, error |-> EmptyStr] }

NoFeedback == [status |-> "none", comment |-> EmptyStr]
NoEvent == [id |-> 0, event |-> "none"]

VARIABLES
    messages,               \* line 439: the messages on the page, in order
    input,                  \* line 450: the question being typed
    loading,                \* line 451: is a question waiting for its answer
    feedbackUI,             \* line 452: message id -> the state of its feedback controls
    fetching,               \* the feedback requests of line 658 not answered yet
    answeredOk,             \* the submissions the endpoint answered with success
    last                    \* the message and kind of the latest feedback event

chatVars == <<messages, input, loading, feedbackUI, fetching, answeredOk, last>>

\* lines 439-454
ChatInit ==
    /\ messages = << [id |-> 1, role |-> "assistant", content |-> Greeting,
                      feedback |-> NoFeedback] >>
    /\ input = EmptyStr
    /\ loading = FALSE
    /\ feedbackUI = [i \in {} |-> NoFeedback]
    /\ fetching = <<>>
    /\ answeredOk = {}
    /\ last = NoEvent

vars ==
    <<credentials, ENV_SPREADSHEET_ID, cachedSpreadsheetId, sheetsClientPromise,
      cacheFile, sheets, envChanges, nsub, pc, payload, pending, spreadsheetId,
      resp, touched, stages, staleId, nAppended, accepted, bare, issued, ensured,
      after, lastResolved, prev, messages, input, loading, feedbackUI, fetching,
      answeredOk, last>>

NoResp == [status |-> 0, error |-> EmptyStr]
NoSheet == [made |-> FALSE, live |-> FALSE, hasTab |-> FALSE, rows |-> <<>>]

ResolvePcs ==
    {"get_memo", "get_env", "read_file", "get_file", "create", "write_file", "hdr_update"}
TabPcs == {"tab_get", "add_sheet", "tab_hdr"}

\* ------------------------------------------------------------- the service
\* spreadsheets.get succeeds on a spreadsheet that exists and is shared with the account
CanGet(id) == id \in SheetIds /\ sheets[id].live

\* values.update / values.append need the tab the range names
CanWrite(id) == CanGet(id) /\ sheets[id].hasTab

\* addSheet is refused when a tab of that title exists
CanAddSheet(id) == CanGet(id) /\ ~sheets[id].hasTab

\* values.update of A1:H1: row 1 of the tab becomes the given row
WriteRow1(rows, row) ==
    IF rows = <<>> THEN <<row>> ELSE [rows EXCEPT ![1] = row]

\* values.append: the row goes after the last row of the tab's table
AppendRow(rows, row) == Append(rows, row)

Unmade == {i \in 1..MaxCreated : ~sheets[<<FreshNames[i]>>].made}
\* the identifier the next successful spreadsheets.create hands out
NextFreshId == <<FreshNames[CHOOSE i \in Unmade : \A j \in Unmade : i <= j]>>

\* ------------------------------------------------------------- helpers
Goto(r, label, id) ==
    /\ pc' = [pc EXCEPT ![r] = label]
    /\ pending' = [pending EXCEPT ![r] = id]

\* the calls counted per request: lines 144, 198, 251
CountedOps == {"create", "batchUpdate", "append"}
NoneIssued == [op \in CountedOps |-> 0]

\* request r issued an external operation
Log(r, op, stage, id, ok) ==
    /\ touched' = [touched EXCEPT ![r] = TRUE]
    /\ issued' = IF op \in CountedOps
                 THEN [issued EXCEPT ![r][op] = @ + 1]
                 ELSE issued

\* request r ended a stage of the handler
StageEnds(r, stage, ok) ==
    /\ stages' = [stages EXCEPT ![r] = Append(@, [stage |-> stage, ok |-> ok])]
    /\ staleId' = [staleId EXCEPT ![r] = EmptyStr]

StageOfPc(label) ==
    IF label \in {"get_memo", "get_env", "read_file", "get_file", "create", "write_file",
                  "hdr_update"} THEN "resolve"
    ELSE IF label \in {"tab_get", "add_sheet", "tab_hdr"} THEN "tab"
    ELSE IF label = "append" THEN "append"
    ELSE "validate"

\* lines 240, 260, 261-268: the handler answers
Respond(r, status, error) ==
    /\ pc' = [pc EXCEPT ![r] = "done"]
    /\ pending' = [pending EXCEPT ![r] = EmptyStr]
    /\ resp' = [resp EXCEPT ![r] = [status |-> status, error |-> error]]
    /\ IF StageOfPc(pc[r]) = "validate"
       THEN UNCHANGED <<stages, staleId>>
       ELSE StageEnds(r, StageOfPc(pc[r]), status = 200)

\* the mark of a resolution that ran while another resolution was running
Overlapped == <<"overlapped">>

\* the other requests that are inside ensureSpreadsheetId
OthersResolving(r) == {q \in Requests \ {r} : pc[q] \in ResolvePcs}

\* a failed call or an out-of-band change ends every "nothing changed" window;
\* the resolutions running side by side at that moment stay marked
Disturb ==
    /\ lastResolved' = EmptyStr
    /\ prev' = [q \in Requests |->
                 IF /\ pc[q] \in ResolvePcs
                    /\ (prev[q] = Overlapped \/ OthersResolving(q) # {})
                 THEN Overlapped ELSE EmptyStr]

Quiet == UNCHANGED <<lastResolved, prev>>

\* ensureSpreadsheetId returned id to request r
Resolved(r, id) ==
    /\ spreadsheetId' = [spreadsheetId EXCEPT ![r] = id]
    /\ StageEnds(r, "resolve", TRUE)
    /\ lastResolved' = IF prev[r] = Overlapped THEN EmptyStr ELSE id
    /\ after' = [after EXCEPT ![r] = id \in SheetIds /\ ensured[id]]
    /\ UNCHANGED prev

ProcessConst == <<credentials, ENV_SPREADSHEET_ID>>
ServiceVars == <<sheets, envChanges, accepted, bare>>
ReqGhosts == <<touched, issued, stages, staleId, nAppended>>

\* ------------------------------------------------------------- Init
Init ==
    /\ credentials \in BOOLEAN
    /\ ENV_SPREADSHEET_ID \in {EmptyStr, OldSheet}
    /\ cachedSpreadsheetId = ENV_SPREADSHEET_ID
    /\ sheetsClientPromise = FALSE
    /\ cacheFile \in {NoFile, <<WS>>, <<WS>> \o OldSheet \o <<WS>>, Garbage}
    /\ \E old \in { [made |-> TRUE, live |-> TRUE, hasTab |-> TRUE, rows |-> <<HEADER>>],
                    [made |-> TRUE, live |-> TRUE, hasTab |-> FALSE, rows |-> <<>>],
                    [made |-> TRUE, live |-> FALSE, hasTab |-> TRUE, rows |-> <<HEADER>>] } :
         sheets = [id \in SheetIds |-> IF id = OldSheet THEN old ELSE NoSheet]
    /\ envChanges = 0
    /\ nsub = 0
    /\ pc = [r \in Requests |-> "idle"]
    /\ payload = [r \in Requests |-> BasePayload]
    /\ pending = [r \in Requests |-> EmptyStr]
    /\ spreadsheetId = [r \in Requests |-> EmptyStr]
    /\ resp = [r \in Requests |-> NoResp]
    /\ touched = [r \in Requests |-> FALSE]
    /\ issued = [r \in Requests |-> NoneIssued]
    /\ ensured = [id \in SheetIds |-> FALSE]
    /\ after = [r \in Requests |-> FALSE]
    /\ stages = [r \in Requests |-> <<>>]
    /\ staleId = [r \in Requests |-> EmptyStr]
    /\ nAppended = [r \in Requests |-> 0]
    /\ accepted = [id \in SheetIds |-> <<>>]
    /\ bare = [id \in SheetIds |-> FALSE]
    /\ lastResolved = EmptyStr
    /\ prev = [r \in Requests |-> EmptyStr]
    /\ ChatInit

\* ------------------------------------------------------------- POST, lines 226-247
\* a request arrives; line 228 awaits its body.  Slot r2 serves a request only
\* while r1 is busy: the slots are interchangeable.
Submit(r) ==
    /\ pc[r] = "idle"
    /\ r = "r2" => pc["r1"] # "idle"
    /\ nsub < MaxSubmissions
    /\ nsub' = nsub + 1
    /\ \E p \in Payloads : payload' = [payload EXCEPT ![r] = p]
    /\ Goto(r, "json", EmptyStr)
    /\ UNCHANGED <<ProcessConst, cachedSpreadsheetId, sheetsClientPromise, cacheFile,
                   ServiceVars, spreadsheetId, resp, ReqGhosts>>
    /\ Quiet
    /\ UNCHANGED <<ensured, after>>

\* lines 239-241
RejectFeedbackType(r) ==
    /\ pc[r] = "json"
    /\ ~ValidFeedbackType(payload[r])
    /\ Respond(r, 400, FeedbackTypeMessage)
    /\ UNCHANGED <<ProcessConst, cachedSpreadsheetId, sheetsClientPromise, cacheFile,
                   ServiceVars, nsub, payload, spreadsheetId, touched, issued,
                   nAppended>>
    /\ Quiet
    /\ UNCHANGED <<ensured, after>>

\* line 243 throws, lines 261-268 answer
RejectTimestamp(r) ==
    /\ pc[r] = "json"
    /\ ValidFeedbackType(payload[r])
    /\ TimestampThrows(payload[r])
    /\ Respond(r, 500, InvalidTimeMessage)
    /\ UNCHANGED <<ProcessConst, cachedSpreadsheetId, sheetsClientPromise, cacheFile,
                   ServiceVars, nsub, payload, spreadsheetId, touched, issued,
                   nAppended>>
    /\ Quiet
    /\ UNCHANGED <<ensured, after>>

\* a client built without looking at the credentials
HasCredentials_Unchecked == TRUE

\* line 86: may the client be built
HasCredentials == credentials

\* lines 81-100, called on line 247
GetSheetsClient(r) ==
    /\ pc[r] = "json"
    /\ ValidFeedbackType(payload[r])
    /\ ~TimestampThrows(payload[r])
    /\ IF sheetsClientPromise
       THEN /\ Goto(r, "client", EmptyStr)
            /\ UNCHANGED <<sheetsClientPromise, resp, touched, issued, stages, staleId>>
       ELSE IF ~HasCredentials
       THEN /\ Respond(r, 500, MissingCredentialsMessage)
            /\ UNCHANGED <<sheetsClientPromise, touched, issued>>
       ELSE /\ sheetsClientPromise' = TRUE
            /\ Log(r, "auth", "client", EmptyStr, TRUE)
            /\ Goto(r, "client", EmptyStr)
            /\ UNCHANGED <<resp, stages, staleId>>
    /\ UNCHANGED <<ProcessConst, cachedSpreadsheetId, cacheFile, ServiceVars, nsub,
                   payload, spreadsheetId, nAppended>>
    /\ Quiet
    /\ UNCHANGED <<ensured, after>>

\* ------------------------------------------------------------- ensureSpreadsheetId, lines 102-184
\* a fall-through that goes straight to the cache file
EnvTier_SkipsConfigured(r) == Goto(r, "read_file", EmptyStr)

\* lines 114-127: the configured value is checked if present, else the file is read
EnvTier(r) ==
    IF Truthy(ENV_SPREADSHEET_ID)
    THEN Goto(r, "get_env", ENV_SPREADSHEET_ID)
    ELSE Goto(r, "read_file", EmptyStr)

\* a resolution without tiers: every call creates a spreadsheet
BeginResolve_AlwaysCreates(r) ==
    /\ pc[r] = "client"
    /\ Goto(r, "create", EmptyStr)
    /\ prev' = [prev EXCEPT ![r] = lastResolved]
    /\ UNCHANGED <<ProcessConst, cachedSpreadsheetId, sheetsClientPromise, cacheFile,
                   ServiceVars, nsub, payload, spreadsheetId, resp, ReqGhosts,
                   lastResolved, ensured, after>>

\* line 103-106: the call starts; a memoized identifier is checked first
BeginResolve(r) ==
    /\ pc[r] = "client"
    /\ IF Truthy(cachedSpreadsheetId)
       THEN Goto(r, "get_memo", cachedSpreadsheetId)
       ELSE EnvTier(r)
    /\ prev' = [q \in Requests |->
                 IF OthersResolving(r) # {} /\ lastResolved = EmptyStr
                    /\ q \in OthersResolving(r) \cup {r}
                 THEN Overlapped
                 ELSE IF q = r THEN lastResolved ELSE prev[q]]
    /\ UNCHANGED <<ProcessConst, cachedSpreadsheetId, sheetsClientPromise, cacheFile,
                   ServiceVars, nsub, payload, spreadsheetId, resp, ReqGhosts,
                   lastResolved>>
    /\ UNCHANGED <<ensured, after>>

\* a memo tier that returns the configured value, as line 118-119 does
MemoReturnValue_Configured(r) == ENV_SPREADSHEET_ID

\* line 107: the value returned after the memoized identifier passed its check
MemoReturnValue(r) == cachedSpreadsheetId

\* a handler that appends as soon as the identifier is resolved
BeginTab_SkipsProvisioner(r, id) == Goto(r, "append", id)

\* lines 186-190: ensureSheetTab starts by reading the spreadsheet it was given
BeginTab(r, id) == Goto(r, "tab_get", id)

\* lines 106-107: the check of the memoized identifier succeeded
MemoGetOk(r) ==
    /\ pc[r] = "get_memo"
    /\ CanGet(pending[r])
    /\ Log(r, "get", "resolve", pending[r], TRUE)
    /\ Resolved(r, MemoReturnValue(r))
    /\ BeginTab(r, MemoReturnValue(r))
    /\ UNCHANGED <<ProcessConst, cachedSpreadsheetId, sheetsClientPromise, cacheFile,
                   ServiceVars, nsub, payload, resp, nAppended>>
    /\ UNCHANGED ensured

\* a memo tier that keeps the identifier whose check failed
MemoAfterFailure_Kept(r) == cachedSpreadsheetId

\* line 110: what the memoized value becomes when its check failed
MemoAfterFailure(r) == EmptyStr

\* lines 108-111: the check of the memoized identifier failed
MemoGetFail(r) ==
    /\ pc[r] = "get_memo"
    /\ Log(r, "get", "resolve", pending[r], FALSE)
    /\ cachedSpreadsheetId' = MemoAfterFailure(r)
    /\ staleId' = [staleId EXCEPT ![r] = pending[r]]
    /\ EnvTier(r)
    /\ Disturb
    /\ UNCHANGED <<ProcessConst, sheetsClientPromise, cacheFile, ServiceVars, nsub,
                   payload, spreadsheetId, resp, stages, nAppended>>
    /\ UNCHANGED <<ensured, after>>

\* a configuration tier that also stores the identifier in the cache file
EnvGetOk_WritesFile(r) ==
    /\ pc[r] = "get_env"
    /\ CanGet(pending[r])
    /\ Log(r, "get", "resolve", pending[r], TRUE)
    /\ cachedSpreadsheetId' = ENV_SPREADSHEET_ID
    /\ cacheFile' = ENV_SPREADSHEET_ID
    /\ Resolved(r, ENV_SPREADSHEET_ID)
    /\ BeginTab(r, ENV_SPREADSHEET_ID)
    /\ UNCHANGED <<ProcessConst, sheetsClientPromise, ServiceVars, nsub, payload, resp,
                   nAppended, ensured>>

\* lines 117-119
EnvGetOk(r) ==
    /\ pc[r] = "get_env"
    /\ CanGet(pending[r])
    /\ Log(r, "get", "resolve", pending[r], TRUE)
    /\ cachedSpreadsheetId' = ENV_SPREADSHEET_ID
    /\ Resolved(r, ENV_SPREADSHEET_ID)
    /\ BeginTab(r, ENV_SPREADSHEET_ID)
    /\ UNCHANGED <<ProcessConst, sheetsClientPromise, cacheFile, ServiceVars, nsub,
                   payload, resp, nAppended>>
    /\ UNCHANGED ensured

\* lines 120-127
EnvGetFail(r) ==
    /\ pc[r] = "get_env"
    /\ Log(r, "get", "resolve", pending[r], FALSE)
    /\ Goto(r, "read_file", EmptyStr)
    /\ Disturb
    /\ UNCHANGED <<ProcessConst, cachedSpreadsheetId, sheetsClientPromise, cacheFile,
                   ServiceVars, nsub, payload, spreadsheetId, resp, stages, staleId, nAppended>>
    /\ UNCHANGED <<ensured, after>>

\* line 128
ParsedOf(stored) == Trim(stored)

\* lines 129-131, 142-144: an identifier read from the file is checked, else a
\* spreadsheet is created
FileTier(r, parsed) ==
    IF Truthy(parsed) THEN Goto(r, "get_file", parsed) ELSE Goto(r, "create", EmptyStr)

\* lines 127-131, 142-144: the file was read
ReadFileOk(r) ==
    /\ pc[r] = "read_file"
    /\ cacheFile # NoFile
    /\ Log(r, "readFile", "resolve", EmptyStr, TRUE)
    /\ FileTier(r, ParsedOf(cacheFile))
    /\ UNCHANGED <<ProcessConst, cachedSpreadsheetId, sheetsClientPromise, cacheFile,
                   ServiceVars, nsub, payload, spreadsheetId, resp, stages, staleId, nAppended>>
    /\ Quiet
    /\ UNCHANGED <<ensured, after>>

\* lines 138-144: the file is missing or cannot be read
ReadFileFail(r) ==
    /\ pc[r] = "read_file"
    /\ Log(r, "readFile", "resolve", EmptyStr, FALSE)
    /\ Goto(r, "create", EmptyStr)
    /\ UNCHANGED <<ProcessConst, cachedSpreadsheetId, sheetsClientPromise, cacheFile,
                   ServiceVars, nsub, payload, spreadsheetId, resp, stages, staleId, nAppended>>
    /\ IF cacheFile = NoFile THEN Quiet ELSE Disturb
    /\ UNCHANGED <<ensured, after>>

\* a file tier that trusts what it read without waiting for the check
FileGetOk_Unchecked(r) ==
    /\ pc[r] = "get_file"
    /\ Log(r, "get", "resolve", pending[r], TRUE)
    /\ cachedSpreadsheetId' = pending[r]
    /\ Resolved(r, pending[r])
    /\ BeginTab(r, pending[r])
    /\ UNCHANGED <<ProcessConst, sheetsClientPromise, cacheFile, ServiceVars, nsub,
                   payload, resp, nAppended>>
    /\ UNCHANGED ensured

\* lines 131-133
FileGetOk(r) ==
    /\ pc[r] = "get_file"
    /\ CanGet(pending[r])
    /\ Log(r, "get", "resolve", pending[r], TRUE)
    /\ cachedSpreadsheetId' = pending[r]
    /\ Resolved(r, pending[r])
    /\ BeginTab(r, pending[r])
    /\ UNCHANGED <<ProcessConst, sheetsClientPromise, cacheFile, ServiceVars, nsub,
                   payload, resp, nAppended>>
    /\ UNCHANGED ensured

\* lines 134-144
FileGetFail(r) ==
    /\ pc[r] = "get_file"
    /\ Log(r, "get", "resolve", pending[r], FALSE)
    /\ Goto(r, "create", EmptyStr)
    /\ Disturb
    /\ UNCHANGED <<ProcessConst, cachedSpreadsheetId, sheetsClientPromise, cacheFile,
                   ServiceVars, nsub, payload, spreadsheetId, resp, stages, staleId, nAppended>>
    /\ UNCHANGED <<ensured, after>>

\* lines 144-170: the service created a spreadsheet holding the tab, and named it
CreateOk(r) ==
    /\ pc[r] = "create"
    /\ Unmade # {}
    /\ LET id == NextFreshId IN
         /\ sheets' = [sheets EXCEPT ![id] =
                          [made |-> TRUE, live |-> TRUE, hasTab |-> TRUE, rows |-> <<>>]]
         /\ Log(r, "create", "resolve", id, TRUE)
         /\ cachedSpreadsheetId' = id
         /\ Goto(r, "write_file", id)
    /\ Disturb
    /\ UNCHANGED <<ProcessConst, sheetsClientPromise, cacheFile, envChanges, accepted,
                   bare, nsub, payload, spreadsheetId, resp, stages, staleId, nAppended>>
    /\ UNCHANGED <<ensured, after>>

\* a resolution that goes on with the missing identifier
CreateNoId_GoesOn(r) ==
    /\ pc[r] = "create"
    /\ Log(r, "create", "resolve", EmptyStr, TRUE)
    /\ cachedSpreadsheetId' = EmptyStr
    /\ Goto(r, "write_file", EmptyStr)
    /\ Disturb
    /\ UNCHANGED <<ProcessConst, sheetsClientPromise, cacheFile, ServiceVars, nsub,
                   payload, spreadsheetId, resp, stages, staleId, nAppended, ensured,
                   after>>

\* lines 162-166: the service answered without an identifier
CreateNoId(r) ==
    /\ pc[r] = "create"
    /\ Log(r, "create", "resolve", EmptyStr, TRUE)
    /\ Respond(r, 500, CreateFailedMessage)
    /\ Disturb
    /\ UNCHANGED <<ProcessConst, cachedSpreadsheetId, sheetsClientPromise, cacheFile,
                   ServiceVars, nsub, payload, spreadsheetId, nAppended>>
    /\ UNCHANGED <<ensured, after>>

\* line 144 throws
CreateFail(r) ==
    /\ pc[r] = "create"
    /\ Log(r, "create", "resolve", EmptyStr, FALSE)
    /\ Respond(r, 500, ServiceErrorMessage)
    /\ Disturb
    /\ UNCHANGED <<ProcessConst, cachedSpreadsheetId, sheetsClientPromise, cacheFile,
                   ServiceVars, nsub, payload, spreadsheetId, nAppended>>
    /\ UNCHANGED <<ensured, after>>

\* a resolution that goes on without the file having been written
WriteFileOk_NotPersisted(r) ==
    /\ pc[r] = "write_file"
    /\ Log(r, "writeFile", "resolve", pending[r], TRUE)
    /\ Goto(r, "hdr_update", pending[r])
    /\ Disturb
    /\ UNCHANGED <<ProcessConst, cachedSpreadsheetId, sheetsClientPromise, cacheFile,
                   ServiceVars, nsub, payload, spreadsheetId, resp, stages, staleId,
                   nAppended, ensured, after>>

\* lines 170-172
WriteFileOk(r) ==
    /\ pc[r] = "write_file"
    /\ Log(r, "writeFile", "resolve", pending[r], TRUE)
    /\ cacheFile' = pending[r]
    /\ Goto(r, "hdr_update", pending[r])
    /\ Disturb
    /\ UNCHANGED <<ProcessConst, cachedSpreadsheetId, sheetsClientPromise, ServiceVars,
                   nsub, payload, spreadsheetId, resp, stages, staleId, nAppended>>
    /\ UNCHANGED <<ensured, after>>

\* line 170 throws
WriteFileFail(r) ==
    /\ pc[r] = "write_file"
    /\ Log(r, "writeFile", "resolve", pending[r], FALSE)
    /\ Respond(r, 500, FileErrorMessage)
    /\ Disturb
    /\ UNCHANGED <<ProcessConst, cachedSpreadsheetId, sheetsClientPromise, cacheFile,
                   ServiceVars, nsub, payload, spreadsheetId, nAppended>>
    /\ UNCHANGED <<ensured, after>>

\* a creation tier that returns the memoized value instead of its own identifier
HeaderUpdateOk_ReturnsMemo(r) ==
    /\ pc[r] = "hdr_update"
    /\ CanWrite(pending[r])
    /\ sheets' = [sheets EXCEPT ![pending[r]].rows = WriteRow1(@, HEADER)]
    /\ Log(r, "update", "resolve", pending[r], TRUE)
    /\ Resolved(r, cachedSpreadsheetId)
    /\ BeginTab(r, cachedSpreadsheetId)
    /\ UNCHANGED <<ProcessConst, cachedSpreadsheetId, sheetsClientPromise, cacheFile,
                   envChanges, accepted, bare, nsub, payload, resp, nAppended, ensured>>

\* lines 172-183: the header row was written, the new identifier is returned
HeaderUpdateOk(r) ==
    /\ pc[r] = "hdr_update"
    /\ CanWrite(pending[r])
    /\ sheets' = [sheets EXCEPT ![pending[r]].rows = WriteRow1(@, HEADER)]
    /\ Log(r, "update", "resolve", pending[r], TRUE)
    /\ Resolved(r, pending[r])
    /\ BeginTab(r, pending[r])
    /\ UNCHANGED <<ProcessConst, cachedSpreadsheetId, sheetsClientPromise, cacheFile,
                   envChanges, accepted, bare, nsub, payload, resp, nAppended>>
    /\ UNCHANGED ensured

\* line 172 throws
HeaderUpdateFail(r) ==
    /\ pc[r] = "hdr_update"
    /\ Log(r, "update", "resolve", pending[r], FALSE)
    /\ Respond(r, 500, ServiceErrorMessage)
    /\ Disturb
    /\ UNCHANGED <<ProcessConst, cachedSpreadsheetId, sheetsClientPromise, cacheFile,
                   ServiceVars, nsub, payload, spreadsheetId, nAppended>>
    /\ UNCHANGED <<ensured, after>>

\* ------------------------------------------------------------- ensureSheetTab, lines 186-224
\* a provisioner that never finds the tab
HasTab_Never(id) == FALSE

\* line 192
HasTab(id) == sheets[id].hasTab

\* lines 249-251: ensureSheetTab returned, the append is issued
BeginAppend(r, id) ==
    /\ Goto(r, "append", id)
    /\ StageEnds(r, "tab", TRUE)
    /\ ensured' = [ensured EXCEPT ![id] = TRUE]

\* lines 187-198 and 251: the spreadsheet was read
TabGetOk(r) ==
    /\ pc[r] = "tab_get"
    /\ CanGet(pending[r])
    /\ Log(r, "get", "tab", pending[r], TRUE)
    /\ IF HasTab(pending[r])
       THEN BeginAppend(r, pending[r])
       ELSE Goto(r, "add_sheet", pending[r]) /\ UNCHANGED <<stages, staleId, ensured>>
    /\ UNCHANGED <<ProcessConst, cachedSpreadsheetId, sheetsClientPromise, cacheFile,
                   ServiceVars, nsub, payload, spreadsheetId, resp, nAppended>>
    /\ Quiet
    /\ UNCHANGED after

\* line 187 throws
TabGetFail(r) ==
    /\ pc[r] = "tab_get"
    /\ Log(r, "get", "tab", pending[r], FALSE)
    /\ Respond(r, 500, ServiceErrorMessage)
    /\ Disturb
    /\ UNCHANGED <<ProcessConst, cachedSpreadsheetId, sheetsClientPromise, cacheFile,
                   ServiceVars, nsub, payload, spreadsheetId, nAppended>>
    /\ UNCHANGED <<ensured, after>>

\* lines 198-216: the tab was added
AddSheetOk(r) ==
    /\ pc[r] = "add_sheet"
    /\ CanAddSheet(pending[r])
    /\ sheets' = [sheets EXCEPT ![pending[r]].hasTab = TRUE, ![pending[r]].rows = <<>>]
    /\ Log(r, "batchUpdate", "tab", pending[r], TRUE)
    /\ Goto(r, "tab_hdr", pending[r])
    /\ UNCHANGED <<ProcessConst, cachedSpreadsheetId, sheetsClientPromise, cacheFile,
                   envChanges, accepted, bare, nsub, payload, spreadsheetId, resp,
                   stages, staleId, nAppended>>
    /\ Quiet
    /\ UNCHANGED <<ensured, after>>

\* a provisioner that issues the batchUpdate again after a failure
AddSheetFail_Retried(r) ==
    /\ pc[r] = "add_sheet"
    /\ Log(r, "batchUpdate", "tab", pending[r], FALSE)
    /\ Goto(r, "add_sheet", pending[r])
    /\ Disturb
    /\ UNCHANGED <<ProcessConst, cachedSpreadsheetId, sheetsClientPromise, cacheFile,
                   ServiceVars, nsub, payload, spreadsheetId, resp, stages, staleId,
                   nAppended, ensured, after>>

\* line 198 throws
AddSheetFail(r) ==
    /\ pc[r] = "add_sheet"
    /\ Log(r, "batchUpdate", "tab", pending[r], FALSE)
    /\ Respond(r, 500, ServiceErrorMessage)
    /\ Disturb
    /\ UNCHANGED <<ProcessConst, cachedSpreadsheetId, sheetsClientPromise, cacheFile,
                   ServiceVars, nsub, payload, spreadsheetId, nAppended>>
    /\ UNCHANGED <<ensured, after>>

\* lines 216-224 and 251: the header row of the added tab was written
TabHeaderOk(r) ==
    /\ pc[r] = "tab_hdr"
    /\ CanWrite(pending[r])
    /\ sheets' = [sheets EXCEPT ![pending[r]].rows = WriteRow1(@, HEADER)]
    /\ Log(r, "update", "tab", pending[r], TRUE)
    /\ BeginAppend(r, pending[r])
    /\ UNCHANGED <<ProcessConst, cachedSpreadsheetId, sheetsClientPromise, cacheFile,
                   envChanges, accepted, bare, nsub, payload, spreadsheetId, resp,
                   nAppended>>
    /\ Quiet
    /\ UNCHANGED after

\* line 216 throws
TabHeaderFail(r) ==
    /\ pc[r] = "tab_hdr"
    /\ Log(r, "update", "tab", pending[r], FALSE)
    /\ Respond(r, 500, ServiceErrorMessage)
    /\ Disturb
    /\ UNCHANGED <<ProcessConst, cachedSpreadsheetId, sheetsClientPromise, cacheFile,
                   ServiceVars, nsub, payload, spreadsheetId, nAppended>>
    /\ UNCHANGED <<ensured, after>>

\* ------------------------------------------------------------- POST, lines 251-270
\* line 260: the response after the append was accepted
SuccessStatus == 200

\* lines 251-260: the append was accepted
AppendOk(r) ==
    /\ pc[r] = "append"
    /\ CanWrite(pending[r])
    /\ sheets' = [sheets EXCEPT ![pending[r]].rows = AppendRow(@, RowOf(payload[r]))]
    /\ accepted' = [accepted EXCEPT ![pending[r]] = Append(@, payload[r])]
    /\ bare' = [bare EXCEPT ![pending[r]] =
                   @ \/ sheets[pending[r]].rows = <<>> \/ sheets[pending[r]].rows[1] # HEADER]
    /\ nAppended' = [nAppended EXCEPT ![r] = @ + 1]
    /\ Log(r, "append", "append", pending[r], TRUE)
    /\ Respond(r, SuccessStatus, EmptyStr)
    /\ UNCHANGED <<ProcessConst, cachedSpreadsheetId, sheetsClientPromise, cacheFile,
                   envChanges, nsub, payload, spreadsheetId>>
    /\ Quiet
    /\ UNCHANGED <<ensured, after>>

\* a handler that answers success although the append was refused
AppendFail_Swallowed(r) ==
    /\ pc[r] = "append"
    /\ Log(r, "append", "append", pending[r], FALSE)
    /\ Respond(r, 200, EmptyStr)
    /\ Disturb
    /\ UNCHANGED <<ProcessConst, cachedSpreadsheetId, sheetsClientPromise, cacheFile,
                   ServiceVars, nsub, payload, spreadsheetId, nAppended>>
    /\ UNCHANGED <<ensured, after>>

\* line 251 throws, lines 261-268 answer
AppendFail(r) ==
    /\ pc[r] = "append"
    /\ Log(r, "append", "append", pending[r], FALSE)
    /\ Respond(r, 500, ServiceErrorMessage)
    /\ Disturb
    /\ UNCHANGED <<ProcessConst, cachedSpreadsheetId, sheetsClientPromise, cacheFile,
                   ServiceVars, nsub, payload, spreadsheetId, nAppended>>
    /\ UNCHANGED <<ensured, after>>

\* the response was delivered; the slot serves the next request
Finish(r) ==
    /\ pc[r] = "done"
    /\ pc' = [pc EXCEPT ![r] = "idle"]
    /\ payload' = [payload EXCEPT ![r] = BasePayload]
    /\ spreadsheetId' = [spreadsheetId EXCEPT ![r] = EmptyStr]
    /\ resp' = [resp EXCEPT ![r] = NoResp]
    /\ touched' = [touched EXCEPT ![r] = FALSE]
    /\ issued' = [issued EXCEPT ![r] = NoneIssued]
    /\ after' = [after EXCEPT ![r] = FALSE]
    /\ UNCHANGED ensured
    /\ stages' = [stages EXCEPT ![r] = <<>>]
    /\ staleId' = [staleId EXCEPT ![r] = EmptyStr]
    /\ nAppended' = [nAppended EXCEPT ![r] = 0]
    /\ UNCHANGED <<ProcessConst, cachedSpreadsheetId, sheetsClientPromise, cacheFile,
                   ServiceVars, nsub, pending>>
    /\ prev' = [prev EXCEPT ![r] = EmptyStr]
    /\ UNCHANGED lastResolved

\* ------------------------------------------------------------- out of band
\* the spreadsheet is deleted, or the service account loses access to it
EnvRevoke(id) ==
    /\ envChanges < MaxEnvChanges
    /\ sheets[id].live
    /\ sheets' = [sheets EXCEPT ![id].live = FALSE]
    /\ envChanges' = envChanges + 1
    /\ Disturb
    /\ UNCHANGED <<ProcessConst, cachedSpreadsheetId, sheetsClientPromise, cacheFile,
                   accepted, bare, nsub, pc, payload, pending, spreadsheetId, resp,
                   ReqGhosts>>
    /\ UNCHANGED <<ensured, after>>

\* the spreadsheet is restored, or shared with the service account again
EnvRestore(id) ==
    /\ envChanges < MaxEnvChanges
    /\ sheets[id].made /\ ~sheets[id].live
    /\ sheets' = [sheets EXCEPT ![id].live = TRUE]
    /\ envChanges' = envChanges + 1
    /\ Disturb
    /\ UNCHANGED <<ProcessConst, cachedSpreadsheetId, sheetsClientPromise, cacheFile,
                   accepted, bare, nsub, pc, payload, pending, spreadsheetId, resp,
                   ReqGhosts>>
    /\ UNCHANGED <<ensured, after>>

\* ------------------------------------------------------------- specification
Step(r) ==
    \/ Submit(r)
    \/ RejectFeedbackType(r)
    \/ RejectTimestamp(r)
    \/ GetSheetsClient(r)
    \/ BeginResolve(r)
    \/ MemoGetOk(r)
    \/ MemoGetFail(r)
    \/ EnvGetOk(r)
    \/ EnvGetFail(r)
    \/ ReadFileOk(r)
    \/ ReadFileFail(r)
    \/ FileGetOk(r)
    \/ FileGetFail(r)
    \/ CreateOk(r)
    \/ CreateNoId(r)
    \/ CreateFail(r)
    \/ WriteFileOk(r)
    \/ WriteFileFail(r)
    \/ HeaderUpdateOk(r)
    \/ HeaderUpdateFail(r)
    \/ TabGetOk(r)
    \/ TabGetFail(r)
    \/ AddSheetOk(r)
    \/ AddSheetFail(r)
    \/ TabHeaderOk(r)
    \/ TabHeaderFail(r)
    \/ AppendOk(r)
    \/ AppendFail(r)
    \/ Finish(r)

Next ==
    \/ (\E r \in Requests : Step(r)) /\ UNCHANGED chatVars
    \/ (\E id \in SheetIds : EnvRevoke(id)) /\ UNCHANGED chatVars
    \/ (\E id \in SheetIds : EnvRestore(id)) /\ UNCHANGED chatVars

Spec == Init /\ [][Next]_vars

\* ------------------------------------------------------------- chat page, lines 460-726
ServerVars ==
    <<credentials, ENV_SPREADSHEET_ID, cachedSpreadsheetId, sheetsClientPromise,
      cacheFile, sheets, envChanges, nsub, pc, payload, pending, spreadsheetId,
      resp, touched, stages, staleId, nAppended, accepted, bare, issued, ensured,
      after, lastResolved, prev>>

\* lines 466, 496, 509: identifiers come from the clock, which advances between
\* two messages
DateNow == Len(messages) + 1

IdsOnPage == {messages[i].id : i \in DOMAIN messages}

\* messages.find((m) => m.id === messageId), lines 539 and 616
Find(id) ==
    messages[CHOOSE i \in DOMAIN messages :
                /\ messages[i].id = id
                /\ \A j \in 1..(i - 1) : messages[j].id # id]

\* messages.findIndex, line 643
FindIndex(id) ==
    CHOOSE i \in DOMAIN messages :
        /\ messages[i].id = id
        /\ \A j \in 1..(i - 1) : messages[j].id # id

\* Boolean(m.feedback)
HasFeedback(m) == m.feedback.status # "none"

DefaultUI(open) ==
    [comment |-> EmptyStr, isCommentOpen |-> open, loading |-> FALSE, error |-> EmptyStr]

\* prev[messageId] || default
UIOf(id, default) == IF id \in DOMAIN feedbackUI THEN feedbackUI[id] ELSE default

\* { ...prev, [messageId]: state }
SetUI(id, state) ==
    feedbackUI' = [i \in DOMAIN feedbackUI \cup {id} |->
                     IF i = id THEN state ELSE feedbackUI[i]]

\* feedbackUI[m.id]?.loading
IsLoading(id) == id \in DOMAIN feedbackUI /\ feedbackUI[id].loading

\* lines 811-820: the controls exist for an assistant message without feedback
ControlsRendered(id) ==
    /\ id \in IdsOnPage
    /\ Find(id).role = "assistant"
    /\ ~HasFeedback(Find(id))

\* lines 827-829 and 840-842: disabled of the two buttons
ButtonEnabled(id) ==
    ControlsRendered(id) /\ ~(IsLoading(id) \/ HasFeedback(Find(id)))

\* lines 848, 860 and 866: the comment box and disabled of its controls
CommentBoxEnabled(id) ==
    /\ ControlsRendered(id)
    /\ id \in DOMAIN feedbackUI
    /\ feedbackUI[id].isCommentOpen
    /\ ~IsLoading(id)

\* lines 521-523
HandleInputChange(value) ==
    /\ input' = value
    /\ last' = NoEvent
    /\ UNCHANGED <<messages, loading, feedbackUI, fetching, answeredOk>>

\* lines 460-474, up to the await of line 477
HandleSubmit ==
    /\ Truthy(Trim(input)) /\ ~loading
    /\ Len(messages) < 1 + 2 * MaxExchanges
    /\ messages' = Append(messages, [id |-> DateNow, role |-> "user",
                                     content |-> Trim(input), feedback |-> NoFeedback])
    /\ input' = EmptyStr
    /\ loading' = TRUE
    /\ last' = NoEvent
    /\ UNCHANGED <<feedbackUI, fetching, answeredOk>>

\* lines 486-518: the answer of /api/chat, or the apology when it failed
ChatAnswer(text) ==
    /\ loading
    /\ messages' = Append(messages, [id |-> DateNow, role |-> "assistant",
                                     content |-> text, feedback |-> NoFeedback])
    /\ loading' = FALSE
    /\ last' = NoEvent
    /\ UNCHANGED <<input, feedbackUI, fetching, answeredOk>>

\* lines 538-560
OpenNegativeFeedback(id) ==
    /\ ButtonEnabled(id)
    /\ IF id \notin IdsOnPage \/ HasFeedback(Find(id))
       THEN UNCHANGED feedbackUI
       ELSE SetUI(id, [UIOf(id, DefaultUI(FALSE)) EXCEPT !.isCommentOpen = TRUE,
                                                         !.error = EmptyStr])
    /\ last' = NoEvent
    /\ UNCHANGED <<messages, input, loading, fetching, answeredOk>>

\* lines 562-579
HandleCommentChange(id, value) ==
    /\ CommentBoxEnabled(id)
    /\ SetUI(id, [UIOf(id, DefaultUI(TRUE)) EXCEPT !.comment = value,
                                                    !.error = EmptyStr])
    /\ last' = NoEvent
    /\ UNCHANGED <<messages, input, loading, fetching, answeredOk>>

\* lines 643-649: the latest question above the message
LastQuestion(id) ==
    LET above == {i \in 1..(FindIndex(id) - 1) : messages[i].role = "user"}
    IN  IF above = {} THEN EmptyStr
        ELSE messages[CHOOSE i \in above : \A j \in above : j <= i].content

\* lines 611-672, up to the await of line 658
SendFeedback(id, feedbackType, comment) ==
    IF id \notin IdsOnPage \/ HasFeedback(Find(id))
    THEN /\ last' = NoEvent
         /\ UNCHANGED <<feedbackUI, fetching>>
    ELSE /\ LET existing == UIOf(id, DefaultUI(feedbackType = "negative"))
            IN  SetUI(id, [existing EXCEPT
                             !.comment = IF feedbackType = "negative"
                                         THEN comment ELSE existing.comment,
                             !.isCommentOpen = (feedbackType = "negative"),
                             !.loading = TRUE,
                             !.error = EmptyStr])
         /\ fetching' = Append(fetching,
                               [messageId |-> id,
                                feedbackType |-> feedbackType,
                                userComment |-> comment,
                                lastQuestion |-> LastQuestion(id),
                                lastResponse |-> Find(id).content])
         /\ last' = [id |-> id, event |-> "sent"]

\* line 585
BlankComment(comment) == ~Truthy(comment)

\* lines 581-605
SubmitNegativeFeedback(id) ==
    /\ CommentBoxEnabled(id)
    /\ LET comment == Trim(UIOf(id, DefaultUI(TRUE)).comment)
       IN  IF BlankComment(comment)
           THEN /\ SetUI(id, [UIOf(id, DefaultUI(TRUE)) EXCEPT !.error = ImproveMessage])
                /\ last' = NoEvent
                /\ UNCHANGED fetching
           ELSE SendFeedback(id, "negative", comment)
    /\ UNCHANGED <<messages, input, loading, answeredOk>>

\* lines 607-609
HandlePositiveFeedback(id) ==
    /\ ButtonEnabled(id)
    /\ SendFeedback(id, "positive", EmptyStr)
    /\ UNCHANGED <<messages, input, loading, answeredOk>>

Without(seq, i) == SubSeq(seq, 1, i - 1) \o SubSeq(seq, i + 1, Len(seq))

ResOk_Unchecked(answer) == TRUE

\* line 674
ResOk(answer) == answer.ok

\* lines 674-702: the fetch resolved and its status passed the check
FeedbackOk(i, answer) ==
    /\ i \in DOMAIN fetching
    /\ answer.kind = "response" /\ ResOk(answer)
    /\ LET req == fetching[i]
       IN  /\ messages' = [k \in DOMAIN messages |->
                             IF messages[k].id = req.messageId
                             THEN [messages[k] EXCEPT
                                     !.feedback = [status |-> req.feedbackType,
                                                   comment |-> req.userComment]]
                             ELSE messages[k]]
           /\ SetUI(req.messageId, DefaultUI(FALSE))
           /\ answeredOk' = IF answer.ok
                            THEN answeredOk \cup
                                   {[messageId |-> req.messageId,
                                     feedbackType |-> req.feedbackType,
                                     userComment |-> req.userComment]}
                            ELSE answeredOk
           /\ last' = [id |-> req.messageId, event |-> "ok"]
    /\ fetching' = Without(fetching, i)
    /\ UNCHANGED <<input, loading>>

\* lines 674-677 and 703: the message of the error that reaches the catch
MessageOf(answer) ==
    IF answer.kind = "response"
    THEN IF Truthy(answer.error) THEN answer.error ELSE SubmitFailedMessage
    ELSE answer.error

\* lines 703-725: the fetch was rejected, or its status failed the check
FeedbackFail(i, answer) ==
    /\ i \in DOMAIN fetching
    /\ answer.kind = "rejected" \/ ~ResOk(answer)
    /\ LET req == fetching[i]
           negative == req.feedbackType = "negative"
           existing == UIOf(req.messageId,
                            [comment |-> req.userComment, isCommentOpen |-> negative,
                             loading |-> FALSE, error |-> EmptyStr])
       IN  /\ SetUI(req.messageId,
                    [existing EXCEPT
                       !.comment = IF Truthy(req.userComment)
                                   THEN req.userComment ELSE existing.comment,
                       !.isCommentOpen = negative,
                       !.loading = FALSE,
                       !.error = IF Truthy(MessageOf(answer))
                                 THEN MessageOf(answer) ELSE UnableMessage])
           /\ last' = [id |-> req.messageId, event |-> "failed"]
    /\ fetching' = Without(fetching, i)
    /\ UNCHANGED <<messages, input, loading, answeredOk>>

ChatNext ==
    \/ (\E value \in Inputs : HandleInputChange(value)) /\ UNCHANGED ServerVars
    \/ HandleSubmit /\ UNCHANGED ServerVars
    \/ (\E text \in {AnswerText, Apology} : ChatAnswer(text)) /\ UNCHANGED ServerVars
    \/ (\E id \in IdsOnPage : OpenNegativeFeedback(id)) /\ UNCHANGED ServerVars
    \/ (\E id \in IdsOnPage, value \in Comments : HandleCommentChange(id, value))
          /\ UNCHANGED ServerVars
    \/ (\E id \in IdsOnPage : SubmitNegativeFeedback(id)) /\ UNCHANGED ServerVars
    \/ (\E id \in IdsOnPage : HandlePositiveFeedback(id)) /\ UNCHANGED ServerVars
    \/ (\E i \in DOMAIN fetching, answer \in Answers : FeedbackOk(i, answer))
          /\ UNCHANGED ServerVars
    \/ (\E i \in DOMAIN fetching, answer \in Answers : FeedbackFail(i, answer))
          /\ UNCHANGED ServerVars

\* the page against a configured, healthy server whose state it does not touch
ChatStart ==
    /\ Init
    /\ credentials
    /\ ENV_SPREADSHEET_ID = OldSheet
    /\ cacheFile = NoFile
    /\ sheets[OldSheet].live /\ sheets[OldSheet].hasTab

ChatSpec == ChatStart /\ [][ChatNext]_vars

\* ============================================================= claims
\* the words of the claims, spelled out on a submission's body
SubmittedType(p) == IF "feedbackType" \in p.has THEN Trim(p.feedbackType) ELSE EmptyStr
PermittedType(p) == SubmittedType(p) \in {<<"positive">>, <<"negative">>}
SubmittedTimestamp(p) == IF "timestamp" \in p.has THEN Trim(p.timestamp) ELSE EmptyStr
TimestampUsable(p) ==
    SubmittedTimestamp(p) = EmptyStr \/ DateParse(SubmittedTimestamp(p)) # NaN
Busy(r) == pc[r] # "idle"

Returns(r) == pc[r] \in ResolvePcs /\ pc'[r] = "tab_get"

\* the tiers follow one another as configuration value, cache file, creation
TierOrder(r) ==
    /\ (pc[r] = "get_memo" /\ pc'[r] \notin {"get_memo", "tab_get"}) =>
          IF Truthy(ENV_SPREADSHEET_ID)
          THEN pc'[r] = "get_env" /\ pending'[r] = ENV_SPREADSHEET_ID
          ELSE pc'[r] = "read_file"
    /\ (pc[r] = "get_env" /\ pc'[r] \notin {"get_env", "tab_get"}) => pc'[r] = "read_file"
    /\ (pc[r] = "read_file" /\ pc'[r] # "read_file") =>
          \/ pc'[r] = "create"
          \/ /\ pc'[r] = "get_file"
             /\ cacheFile # NoFile
             /\ pending'[r] = Trim(cacheFile)
    /\ (pc[r] = "get_file" /\ pc'[r] \notin {"get_file", "tab_get"}) => pc'[r] = "create"
    /\ (pc'[r] = "create" /\ pc[r] # "create") => pc[r] \in {"read_file", "get_file"}

\* C3 as stated: after the memoized identifier failed its check the call tries
\* configuration value, cache file, creation in that order, and the identifier
\* it returns is never the one that failed.
C3_Original ==
    [][\A r \in Requests :
          /\ TierOrder(r)
          /\ (Returns(r) /\ Truthy(staleId[r])) => spreadsheetId'[r] # staleId[r]]_vars

\* C3 amended: after the memoized identifier failed its check the call tries
\* configuration value, cache file, creation in that order; it returns the
\* identifier that failed only when that identifier is also the configured
\* value or the value it read from the cache file and the new check of it in
\* that tier succeeded; a created identifier is never the one that failed.
C3_FallThroughOrder ==
    [][\A r \in Requests :
          /\ TierOrder(r)
          /\ (Returns(r) /\ Truthy(staleId[r]) /\ spreadsheetId'[r] = staleId[r]) =>
                /\ pc[r] \in {"get_env", "get_file"}
                /\ pending[r] = staleId[r]
                /\ CanGet(staleId[r])
                /\ pc[r] = "get_env" => staleId[r] = ENV_SPREADSHEET_ID]_vars

C3_Witness ==
    \E r \in Requests :
        /\ pc[r] = "write_file"
        /\ Truthy(staleId[r])
        /\ staleId[r] = ENV_SPREADSHEET_ID
        /\ cacheFile # NoFile /\ Trim(cacheFile) = staleId[r]
        /\ cachedSpreadsheetId \in FreshIds

\* C4: a resolution that starts after another one, which ran alone, returned an
\* identifier, with no failed call and no out-of-band change since, issues no
\* creation call and returns that same identifier.
C4_ResolutionIdempotent ==
    \A r \in Requests :
        prev[r] \in SheetIds =>
            /\ pc[r] \notin {"create", "write_file", "hdr_update"}
            /\ (pc[r] \in TabPcs \cup {"append", "done"}) =>
                  /\ spreadsheetId[r] = prev[r]
                  /\ stages[r][1] = [stage |-> "resolve", ok |-> TRUE]

C4_Witness ==
    \E r \in Requests :
        /\ pc[r] = "tab_get"
        /\ prev[r] \in FreshIds
        /\ spreadsheetId[r] = prev[r]
        /\ nsub = MaxSubmissions

\* a check of the identifier in flight failed and the resolution goes on
FailedCheck(r) ==
    \/ pc[r] = "get_memo" /\ pc'[r] \in {"get_env", "read_file"}
    \/ pc[r] = "get_env" /\ pc'[r] = "read_file"
    \/ pc[r] = "get_file" /\ pc'[r] = "create"

\* C5 as stated: when an identifier fails its access check it is gone from
\* every cache tier, the memoized value and the cache file, before the
\* resolution goes on to resolve another one.
C5_Original ==
    [][\A r \in Requests :
          FailedCheck(r) =>
              /\ cachedSpreadsheetId' # pending[r]
              /\ cacheFile' = NoFile \/ Trim(cacheFile') # pending[r]]_vars

\* C5 amended: a memoized identifier that fails its access check is cleared
\* from memory in the same step, before the next tier is tried, and an
\* identifier that fails in the configuration or cache-file tier is not
\* memoized; the cache file is not evicted: a failed check leaves it as it is,
\* and it changes only when a created identifier is written to it.
C5_EvictedFromMemoryOnly ==
    [][/\ \A r \in Requests :
             FailedCheck(r) =>
                 /\ pc[r] = "get_memo" => cachedSpreadsheetId' = EmptyStr
                 /\ pc[r] # "get_memo" => cachedSpreadsheetId' = cachedSpreadsheetId
                 /\ cacheFile' = cacheFile
       /\ cacheFile' # cacheFile =>
             \E r \in Requests :
                 /\ pc[r] = "write_file"
                 /\ pending[r] \in FreshIds
                 /\ cacheFile' = pending[r]]_vars

C5_Witness ==
    \E r \in Requests :
        /\ pc[r] = "create"
        /\ ENV_SPREADSHEET_ID = OldSheet
        /\ cachedSpreadsheetId = EmptyStr
        /\ cacheFile # NoFile /\ Trim(cacheFile) = OldSheet
        /\ ~sheets[OldSheet].live

\* request r's step memoizes a new identifier
Memoizes(r) ==
    /\ pc'[r] # pc[r]
    /\ cachedSpreadsheetId' # cachedSpreadsheetId
    /\ Truthy(cachedSpreadsheetId')

\* the identifier in flight passed its access check in this step
CheckedNow(r, id) == pending[r] = id /\ CanGet(id)

\* C6 as stated: an identifier is memoized or returned only after a successful
\* access check of that same identifier, in every tier, creation included.
C6_Original ==
    [][\A r \in Requests :
          /\ Memoizes(r) =>
                pc[r] \in {"get_memo", "get_env", "get_file"}
                /\ CheckedNow(r, cachedSpreadsheetId')
          /\ Returns(r) =>
                pc[r] \in {"get_memo", "get_env", "get_file"}
                /\ CheckedNow(r, spreadsheetId'[r])]_vars

\* C6 amended: an identifier taken from the configuration value or the cache
\* file (a corrupted file included) is memoized and returned only in the step
\* in which the access check of that same identifier succeeded; an identifier
\* obtained by creation is memoized as soon as the service returns it and is
\* returned after the header write, with no access check; the memo tier
\* returns the value memoized at the moment its check succeeds.
C6_TrustedAfterCheckOrCreation ==
    [][\A r \in Requests :
          /\ Memoizes(r) =>
                \/ pc[r] \in {"get_env", "get_file"} /\ CheckedNow(r, cachedSpreadsheetId')
                \/ /\ pc[r] = "create"
                   /\ ~sheets[cachedSpreadsheetId'].made
                   /\ sheets'[cachedSpreadsheetId'].live
                   /\ pending'[r] = cachedSpreadsheetId'
          /\ (pc[r] = "write_file" /\ pc'[r] = "hdr_update") => pending'[r] = pending[r]
          /\ Returns(r) =>
                \/ pc[r] \in {"get_env", "get_file"} /\ CheckedNow(r, spreadsheetId'[r])
                \/ /\ pc[r] = "hdr_update"
                   /\ spreadsheetId'[r] = pending[r]
                   /\ pending[r] \in FreshIds
                \/ /\ pc[r] = "get_memo"
                   /\ CanGet(pending[r])
                   /\ spreadsheetId'[r] = cachedSpreadsheetId]_vars

C6_Witness ==
    \E r \in Requests :
        /\ pc[r] = "tab_get"
        /\ spreadsheetId[r] \in FreshIds
        /\ cachedSpreadsheetId = spreadsheetId[r]
        /\ cacheFile = spreadsheetId[r]
        /\ ~sheets[OldSheet].live

\* ------------------------------------------------------------- the handler's stages
StageOrder == <<"resolve", "tab", "append">>
Ok(stage) == [stage |-> stage, ok |-> TRUE]
Failed(stage) == [stage |-> stage, ok |-> FALSE]

\* C7: within one submission the stages run in the order resolve, tab,
\* append; a stage is running only when every earlier one ended successfully,
\* and after a failed stage the request is answered 500 with no later stage.
C7_StagesInSequence ==
    \A r \in Requests :
        /\ Len(stages[r]) <= 3
        /\ \A i \in 1..Len(stages[r]) :
              /\ stages[r][i].stage = StageOrder[i]
              /\ ~stages[r][i].ok => i = Len(stages[r]) /\ pc[r] = "done" /\ resp[r].status = 500
        /\ pc[r] \in ResolvePcs => stages[r] = <<>>
        /\ pc[r] \in TabPcs => stages[r] = <<Ok("resolve")>>
        /\ pc[r] = "append" => stages[r] = <<Ok("resolve"), Ok("tab")>>
        /\ (pc[r] = "done" /\ resp[r].status = 200) =>
              stages[r] = <<Ok("resolve"), Ok("tab"), Ok("append")>>
        /\ nAppended[r] > 0 => stages[r] = <<Ok("resolve"), Ok("tab"), Ok("append")>>

C7_Witness ==
    /\ pc["r1"] = "done" /\ stages["r1"] = <<Ok("resolve"), Ok("tab"), Ok("append")>>
    /\ pc["r2"] = "done" /\ stages["r2"] = <<Ok("resolve"), Failed("tab")>>

\* the row the claims expect of a submission, column by column
FieldOf(p, f) == IF f \in p.has THEN p[f] ELSE EmptyStr
ExpectedRow(p) ==
    << IF SubmittedTimestamp(p) = EmptyStr THEN ToISOString(NowInstant)
       ELSE ToISOString(DateParse(SubmittedTimestamp(p))),
       SubmittedType(p),
       FieldOf(p, "userComment"),
       FieldOf(p, "lastQuestion"),
       FieldOf(p, "lastResponse"),
       <<"[">> \o (IF "fullConversation" \in p.has /\ p.convIsArray THEN p.conv ELSE <<>>)
           \o <<"]">>,
       FieldOf(p, "sessionId"),
       Trim(IF FieldOf(p, "type") # EmptyStr THEN FieldOf(p, "type")
            ELSE FieldOf(p, "admissionsType")) >>

\* C8: success is answered only in the step in which the service accepted the
\* request's append, which adds that submission's row to one tab and changes no
\* other; a request answered success has had exactly one row accepted.
C8_SuccessAfterOneAppend ==
    /\ [](\A r \in Requests :
            /\ nAppended[r] <= 1
            /\ resp[r].status = 200 => nAppended[r] = 1 /\ pc[r] = "done")
    /\ [][\A r \in Requests :
            (resp'[r].status = 200 /\ resp[r].status # 200) =>
                /\ pc[r] = "append"
                /\ CanWrite(pending[r])
                /\ \A id \in SheetIds :
                      sheets'[id].rows =
                          IF id = pending[r]
                          THEN Append(sheets[id].rows, ExpectedRow(payload[r]))
                          ELSE sheets[id].rows]_vars

C8_Witness ==
    \E r \in Requests :
        /\ pc[r] = "done" /\ resp[r].status = 200 /\ nAppended[r] = 1
        /\ \E q \in Requests \ {r} : pc[q] = "done" /\ resp[q].status = 500

\* C9: no step, under any interleaving, changes or removes a feedback row that
\* was already appended; the header writes to A1:H1 included.
C9_Original ==
    [][\A id \in SheetIds :
          \A i \in 1..Len(sheets[id].rows) :
              sheets[id].rows[i] # HEADER =>
                  /\ Len(sheets'[id].rows) >= i
                  /\ sheets'[id].rows[i] = sheets[id].rows[i]]_vars

\* C10: on a tab that had its header row in place at every append, the N
\* submissions whose append was accepted are exactly the N rows below the
\* header, in the order accepted, each holding timestamp, feedbackType,
\* userComment, lastQuestion, lastResponse, fullConversation, sessionId, Type of
\* its submission.
C10_RowsBelowHeader ==
    \A id \in SheetIds :
        (sheets[id].hasTab /\ ~bare[id] /\ accepted[id] # <<>>) =>
            /\ Len(sheets[id].rows) = Len(accepted[id]) + 1
            /\ sheets[id].rows[1] = HEADER
            /\ \A i \in 1..Len(accepted[id]) :
                  /\ sheets[id].rows[i + 1] = ExpectedRow(accepted[id][i])
                  /\ Len(sheets[id].rows[i + 1]) = 8

C10_Witness ==
    \E id \in FreshIds :
        /\ ~bare[id]
        /\ Len(accepted[id]) = 2
        /\ accepted[id][1] # accepted[id][2]
        /\ "admissionsType" \in accepted[id][2].has

\* the ensureSheetTab call of request r has a batchUpdate or header write in flight
TabWriting(r) == pc[r] \in {"add_sheet", "tab_hdr"}

\* C11: an ensureSheetTab call that starts after an earlier call on the same
\* spreadsheet returned issues no batchUpdate and no header write; a call issues
\* the batchUpdate at most once and only when its read showed no tab of that
\* name; when the read shows the tab, the call returns having written nothing.
C11_TabProvisionedOnce ==
    /\ [](\A r \in Requests :
            /\ issued[r]["batchUpdate"] + (IF pc[r] = "add_sheet" THEN 1 ELSE 0) <= 1
            /\ after[r] => ~TabWriting(r) /\ issued[r]["batchUpdate"] = 0)
    /\ [][\A r \in Requests :
            /\ (TabWriting(r)' /\ pc[r] = "tab_get") =>
                  /\ pc'[r] = "add_sheet"
                  /\ ~sheets[pending[r]].hasTab
            /\ (pc[r] = "tab_get" /\ pending[r] \in SheetIds
                   /\ sheets[pending[r]].hasTab /\ pc'[r] # "tab_get") =>
                  /\ pc'[r] \in {"append", "done"}
                  /\ sheets' = sheets
                  /\ issued'[r]["batchUpdate"] = 0]_vars

C11_Witness ==
    \E r \in Requests : \E q \in Requests \ {r} :
        /\ pc[r] = "append" /\ after[r] /\ pending[r] = OldSheet
        /\ issued[r]["batchUpdate"] = 0
        /\ spreadsheetId[q] = OldSheet /\ issued[q]["batchUpdate"] = 1
        /\ pc[q] \in {"append", "done"}

\* the spreadsheets the service created
Created == {id \in FreshIds : sheets[id].made}

\* request r is the only submission so far, valid, with credentials configured
\* and no configured identifier
ColdStart(r) ==
    /\ nsub = 1 /\ Busy(r)
    /\ credentials /\ ENV_SPREADSHEET_ID = EmptyStr
    /\ PermittedType(payload[r]) /\ TimestampUsable(payload[r])

\* C12: the first submission, valid, with credentials and no configured
\* identifier: it can only fail on a failed downstream call; answered success
\* without having created a spreadsheet it found an identifier in the cache
\* file; else it created exactly one spreadsheet, whose tab holds the header
\* row and below it the one row of the submission, and that identifier is the
\* memoized one and the content of the cache file.
C12_ColdStart ==
    \A r \in Requests :
        (ColdStart(r) /\ pc[r] = "done") =>
            /\ resp[r].status # 200 =>
                  /\ resp[r].status = 500
                  /\ resp[r].error \in {ServiceErrorMessage, FileErrorMessage,
                                        CreateFailedMessage}
            /\ (resp[r].status = 200 /\ spreadsheetId[r] \notin FreshIds) =>
                  /\ cacheFile # NoFile /\ Truthy(Trim(cacheFile))
                  /\ Created = {}
            /\ (resp[r].status = 200 /\ spreadsheetId[r] \in FreshIds) =>
                  /\ Created = {spreadsheetId[r]}
                  /\ issued[r] = [create |-> 1, batchUpdate |-> 0, append |-> 1]
                  /\ sheets[spreadsheetId[r]].hasTab
                  /\ sheets[spreadsheetId[r]].rows = <<HEADER, ExpectedRow(payload[r])>>
                  /\ cachedSpreadsheetId = spreadsheetId[r]
                  /\ cacheFile = spreadsheetId[r]

C12_Witness ==
    \E r \in Requests :
        /\ ColdStart(r) /\ pc[r] = "done" /\ resp[r].status = 200
        /\ payload[r].userComment = <<"too vague">>
        /\ spreadsheetId[r] \in FreshIds
        /\ cacheFile = spreadsheetId[r]
        /\ sheets[spreadsheetId[r]].rows = <<HEADER, ExpectedRow(payload[r])>>

\* calls of kind op that request r has issued, the one in flight included
Calls(r, op) ==
    issued[r][op] +
        (IF \/ op = "create" /\ pc[r] = "create"
            \/ op = "batchUpdate" /\ pc[r] = "add_sheet"
            \/ op = "append" /\ pc[r] = "append"
         THEN 1 ELSE 0)

\* C13: a valid submission whose resolution starts after an identifier was
\* resolved and memoized, with no failed call and no out-of-band change since,
\* issues no creation call, and ends answered success after exactly one append
\* call.
C13_SecondSubmission ==
    \A r \in Requests :
        prev[r] \in SheetIds =>
            /\ Calls(r, "create") = 0
            /\ Calls(r, "append") <= 1
            /\ pc[r] = "done" =>
                  /\ resp[r].status = 200
                  /\ issued[r]["append"] = 1
                  /\ nAppended[r] = 1

C13_Witness ==
    \E r \in Requests : \E q \in Requests \ {r} :
        /\ pc[q] = "done" /\ resp[q].status = 200 /\ issued[q]["create"] = 1
        /\ pc[r] = "done" /\ resp[r].status = 200
        /\ prev[r] = spreadsheetId[q] /\ spreadsheetId[r] = prev[r]
        /\ issued[r] = [create |-> 0, batchUpdate |-> 0, append |-> 1]
        /\ Len(sheets[prev[r]].rows) = 3

\* C14: a creation call that brings back no identifier ends the submission at
\* once: it is answered 500, with the provisioning error when the service
\* answered without an identifier, and the step leaves the memoized identifier,
\* the cache file and every spreadsheet as they were; the submission has issued
\* no tab creation, no header write and no append.
C14_CreateWithoutId ==
    /\ [][\A r \in Requests :
            (pc[r] = "create" /\ pc'[r] # "create" /\ Created' = Created) =>
                /\ pc'[r] = "done"
                /\ resp'[r].status = 500
                /\ resp'[r].error \in {CreateFailedMessage, ServiceErrorMessage}
                /\ cachedSpreadsheetId' = cachedSpreadsheetId
                /\ cacheFile' = cacheFile
                /\ sheets' = sheets]_vars
    /\ [](\A r \in Requests :
            (pc[r] = "done" /\ resp[r].error = CreateFailedMessage) =>
                /\ resp[r].status = 500
                /\ issued[r] = [create |-> 1, batchUpdate |-> 0, append |-> 0]
                /\ nAppended[r] = 0
                /\ spreadsheetId[r] = EmptyStr
                /\ stages[r] = <<[stage |-> "resolve", ok |-> FALSE]>>)

C14_Witness ==
    \E r \in Requests :
        /\ pc[r] = "done" /\ resp[r].error = CreateFailedMessage
        /\ cachedSpreadsheetId = EmptyStr
        /\ cacheFile = Garbage
        /\ Created = {}

\* C15 as stated: a failed check of the memoized, configured or cache-file
\* identifier, and a missing or unreadable cache file, never end the
\* resolution; it ends in an error only when the service failed in the creation
\* tier, on the creation call or on the header write to the new spreadsheet.
C15_Original ==
    [][\A r \in Requests :
          (pc[r] \in ResolvePcs /\ pc'[r] = "done") =>
              pc[r] \in {"create", "hdr_update"}]_vars

\* spreadsheet id has the tab, with the header row as its first row
HeaderInPlace(id) ==
    /\ sheets[id].hasTab
    /\ sheets[id].rows # <<>>
    /\ sheets[id].rows[1] = HEADER

\* request r created the spreadsheet it resolved
CreatedOwn(r) == issued[r]["create"] = 1 /\ spreadsheetId[r] \in FreshIds

\* C16: under any interleaving a submission issues at most one creation call,
\* so no more spreadsheets exist than submissions were made; a submission that
\* created its spreadsheet uses that one: it appends to it only after the header
\* row is in place, and once it is answered success its row stands below the
\* header row of that spreadsheet's tab.
C16_RacingCreations ==
    /\ Cardinality(Created) <= nsub
    /\ \A r \in Requests :
          /\ Calls(r, "create") <= 1
          /\ (CreatedOwn(r) /\ pc[r] \in TabPcs \cup {"append"}) =>
                /\ pending[r] = spreadsheetId[r]
                /\ HeaderInPlace(spreadsheetId[r])
          /\ (CreatedOwn(r) /\ pc[r] = "done" /\ resp[r].status = 200) =>
                /\ HeaderInPlace(spreadsheetId[r])
                /\ \E i \in 2..Len(sheets[spreadsheetId[r]].rows) :
                      sheets[spreadsheetId[r]].rows[i] = ExpectedRow(payload[r])

C16_Witness ==
    \E r \in Requests : \E q \in Requests \ {r} :
        /\ pc[r] = "hdr_update" /\ pending[r] = <<"n1">>
        /\ sheets[<<"n1">>].rows = <<>>
        /\ CreatedOwn(q) /\ spreadsheetId[q] = <<"n2">>
        /\ pc[q] = "done" /\ resp[q].status = 200
        /\ sheets[<<"n2">>].rows = <<HEADER, ExpectedRow(payload[q])>>

\* the feedback rows of spreadsheet id: every row that is not the header row
DataRows(id) ==
    {sheets[id].rows[i] : i \in {j \in 1..Len(sheets[id].rows) : sheets[id].rows[j] # HEADER}}

\* C17: the first column of every feedback row parses to an instant; a
\* submission whose supplied timestamp cannot be parsed never has a call in
\* flight, issues no external operation and gets no row; the row appended for a
\* submission without a timestamp carries the submission time, the row of one
\* with a timestamp carries that instant in ISO format.
C17_TimestampValid ==
    /\ [](\A id \in SheetIds : \A row \in DataRows(id) : DateParse(row[1]) # NaN)
    /\ [](\A r \in Requests :
            (Busy(r) /\ ~TimestampUsable(payload[r])) =>
                /\ pc[r] \in {"json", "done"}
                /\ ~touched[r]
                /\ pending[r] = EmptyStr
                /\ nAppended[r] = 0
                /\ resp[r].status # 200)
    /\ [][\A r \in Requests :
            nAppended'[r] > nAppended[r] =>
                LET rows == sheets'[pending[r]].rows
                    ts == rows[Len(rows)][1]
                IN /\ Len(rows) = Len(sheets[pending[r]].rows) + 1
                   /\ ts = IF SubmittedTimestamp(payload[r]) = EmptyStr
                           THEN ToISOString(NowInstant)
                           ELSE ToISOString(DateParse(SubmittedTimestamp(payload[r])))
                   /\ DateParse(ts) # NaN]_vars

C17_Witness ==
    \E r \in Requests : \E q \in Requests \ {r} :
        /\ pc[r] = "done" /\ resp[r].status = 200
        /\ SubmittedTimestamp(payload[r]) = <<"Mon, 01 Jan 2024 00:00:00 GMT">>
        /\ \E row \in DataRows(spreadsheetId[r]) : row[1] = IsoOf1
        /\ pc[q] = "done" /\ ~TimestampUsable(payload[q])
        /\ resp[q].error = InvalidTimeMessage

\* the body of a submission fails validation: its feedbackType is not one of
\* the two permitted values, or the timestamp it supplies cannot be parsed
InputInvalid(p) == ~PermittedType(p) \/ ~TimestampUsable(p)

\* C18 as stated: a submission is answered once, 200 after its row was
\* accepted, 400 when its input fails validation, 500 when a downstream step
\* failed; an invalid input is never answered 500 and a downstream failure is
\* never answered 400.
C18_Original ==
    \A r \in Requests :
        /\ resp[r] # NoResp <=> pc[r] = "done"
        /\ pc[r] = "done" =>
              /\ resp[r].status \in {200, 400, 500}
              /\ resp[r].status = 200 <=> nAppended[r] = 1
              /\ resp[r].status = 400 <=> InputInvalid(payload[r])
              /\ resp[r].status = 500 =>
                    /\ ~InputInvalid(payload[r])
                    /\ resp[r].error # EmptyStr

\* the identifiers whose access check failed earlier in the resolution request r
\* is running: the memoized one, and at the file tier the configured one too
FailedEarlier(r) ==
    {staleId[r]} \cup (IF pc[r] = "get_file" THEN {ENV_SPREADSHEET_ID} ELSE {})

\* request r has an access check of a lower tier in flight
CheckingLowerTier(r) == pc[r] \in {"get_env", "get_file"}

\* at most one creation, one tab creation and one append call per submission
OneCallEach(r) ==
    /\ Calls(r, "create") <= 1
    /\ Calls(r, "batchUpdate") <= 1
    /\ Calls(r, "append") <= 1

\* the step in which a call of the creation tier, of the provisioner or the
\* append is answered: the handler goes on to the next call of the sequence
\* or, when the call failed, answers 500 at once with nothing written
NoCallAfterFailure(r) ==
    (pc[r] \in {"create", "write_file", "hdr_update", "tab_get", "add_sheet",
                "tab_hdr", "append"} /\ pc'[r] # pc[r]) =>
        /\ pc'[r] \in
              CASE pc[r] = "create" -> {"write_file", "done"}
                [] pc[r] = "write_file" -> {"hdr_update", "done"}
                [] pc[r] = "hdr_update" -> {"tab_get", "done"}
                [] pc[r] = "tab_get" -> {"add_sheet", "append", "done"}
                [] pc[r] = "add_sheet" -> {"tab_hdr", "done"}
                [] pc[r] = "tab_hdr" -> {"append", "done"}
                [] pc[r] = "append" -> {"done"}
        /\ (pc'[r] = "done" /\ resp'[r].status # 200) =>
              /\ resp'[r].status = 500
              /\ sheets' = sheets
              /\ cacheFile' = cacheFile
              /\ issued'[r]["create"] + issued'[r]["batchUpdate"] + issued'[r]["append"]
                    <= issued[r]["create"] + issued[r]["batchUpdate"]
                         + issued[r]["append"] + 1

\* C19 as stated: a submission issues at most one creation, one tab creation
\* and one append call, never checks again an identifier whose check already
\* failed in it, and issues no call after a failed create, provisioning or
\* append.
C19_Original ==
    /\ [](\A r \in Requests :
            /\ OneCallEach(r)
            /\ CheckingLowerTier(r) => pending[r] \notin FailedEarlier(r))
    /\ [][\A r \in Requests : NoCallAfterFailure(r)]_vars

\* C19 amended: a submission issues at most one creation, one tab creation and
\* one append call and issues no call after a failed create, provisioning or
\* append; each tier issues its one access check, and an identifier whose check
\* failed is checked again only by a lower tier that holds the same value: the
\* configured value, or the value read from the cache file.
C19_NoRetries ==
    /\ [](\A r \in Requests :
            /\ OneCallEach(r)
            /\ pc[r] = "get_env" => pending[r] = ENV_SPREADSHEET_ID
            /\ pc[r] = "get_memo" => staleId[r] = EmptyStr)
    /\ [][\A r \in Requests :
            /\ NoCallAfterFailure(r)
            /\ TierOrder(r)
            /\ (pc'[r] = "get_memo" /\ pc[r] # "get_memo") => pc[r] = "client"
            /\ (pc'[r] = "get_env" /\ pc[r] # "get_env") => pc[r] \in {"client", "get_memo"}
            /\ (pc'[r] = "get_file" /\ pc[r] # "get_file") =>
                  /\ pc[r] = "read_file"
                  /\ cacheFile # NoFile /\ pending'[r] = Trim(cacheFile)]_vars

C19_Witness ==
    \E r \in Requests :
        /\ pc[r] = "get_file"
        /\ Truthy(staleId[r])
        /\ pending[r] = staleId[r]
        /\ pending[r] = ENV_SPREADSHEET_ID

\* request r issues the read of the cache file in this step
ReadsFile(r) == pc'[r] = "read_file" /\ pc[r] # "read_file"

\* request r issues the write of the cache file in this step
WritesFile(r) == pc'[r] = "write_file" /\ pc[r] # "write_file"

\* the check of the memoized identifier that request r had in flight failed
MemoCheckFailed(r) ==
    /\ pc[r] = "get_memo"
    /\ spreadsheetId'[r] = spreadsheetId[r]
    /\ staleId'[r] = pending[r]

\* C20: the cache file changes only in the step of a request whose write of it
\* succeeded, and then holds the identifier of the spreadsheet that request
\* created; the write is issued only on a successful creation call. The file
\* is read only by a call that found the memoized value empty or saw its check
\* fail, and then found no configured value or saw its check fail.
C20_CacheFileFrame ==
    [][/\ cacheFile' # cacheFile =>
            \E r \in Requests :
                /\ pc[r] = "write_file" /\ pc'[r] = "hdr_update"
                /\ cacheFile' = pending[r]
                /\ pending[r] \in Created
                /\ issued[r]["create"] = 1
       /\ \A r \in Requests :
            /\ WritesFile(r) =>
                  /\ pc[r] = "create"
                  /\ Created' \ Created = {pending'[r]}
            /\ ReadsFile(r) =>
                  \/ /\ pc[r] = "client"
                     /\ ~Truthy(cachedSpreadsheetId)
                     /\ ~Truthy(ENV_SPREADSHEET_ID)
                  \/ /\ MemoCheckFailed(r)
                     /\ ~Truthy(ENV_SPREADSHEET_ID)
                  \/ /\ pc[r] = "get_env"
                     /\ spreadsheetId'[r] = spreadsheetId[r]
            /\ (pc'[r] = "get_env" /\ pc[r] # "get_env") =>
                  \/ pc[r] = "client" /\ ~Truthy(cachedSpreadsheetId)
                  \/ MemoCheckFailed(r)]_vars

C20_Witness ==
    \E r \in Requests :
        /\ pc[r] = "get_file"
        /\ pending[r] \in Created
        /\ cacheFile = pending[r]
        /\ staleId[r] = pending[r]
        /\ ENV_SPREADSHEET_ID = EmptyStr

\* C21 as stated: every feedback row is appended to a tab whose first row is
\* the header row, also after submissions that failed part-way.
C21_Original ==
    [][\A r \in Requests :
          nAppended'[r] > nAppended[r] => HeaderInPlace(pending[r])]_vars

\* C22 as stated: the memo tier returns the identifier whose check it saw
\* succeed, and it clears the memoized value only while that value still is
\* the identifier whose check it saw fail.
C22_Original ==
    [][\A r \in Requests :
          /\ (pc[r] = "get_memo" /\ Returns(r)) => spreadsheetId'[r] = pending[r]
          /\ (MemoCheckFailed(r) /\ cachedSpreadsheetId' # cachedSpreadsheetId) =>
                cachedSpreadsheetId = pending[r]]_vars

\* ------------------------------------------------------------- C23
Marked(id) == HasFeedback(Find(id))

AssistantIds == {id \in IdsOnPage : Find(id).role = "assistant"}

SubmissionOf(id) ==
    [messageId |-> id,
     feedbackType |-> Find(id).feedback.status,
     userComment |-> Find(id).feedback.comment]

\* C23: a message carries feedback only when the endpoint answered that
\* submission of that message with success; no feedback request is sent for a
\* message that carries feedback; right after a failed submission the message
\* carries no feedback, shows an error, is not loading and has its buttons
\* enabled again; and no negative request in flight has a comment that is empty
\* after trimming.
C23_FeedbackMarks ==
    /\ \A id \in IdsOnPage :
          /\ Marked(id) => SubmissionOf(id) \in answeredOk
          /\ last = [id |-> id, event |-> "sent"] => ~Marked(id)
          /\ last = [id |-> id, event |-> "failed"] =>
                /\ ~Marked(id)
                /\ id \in DOMAIN feedbackUI
                /\ Truthy(feedbackUI[id].error)
                /\ ~feedbackUI[id].loading
                /\ ButtonEnabled(id)
    /\ \A i \in DOMAIN fetching :
          fetching[i].feedbackType = "negative" => Truthy(Trim(fetching[i].userComment))

\* one answer carries negative feedback with its comment, sent after an attempt
\* with a blank comment was refused or failed, while the submission for another
\* answer has just failed and shows the endpoint's error
C23_Witness ==
    \E a, b \in AssistantIds :
        /\ a # b
        /\ Marked(a)
        /\ Find(a).feedback = [status |-> "negative", comment |-> <<"c">>]
        /\ last = [id |-> b, event |-> "failed"]
        /\ feedbackUI[b].error = ServiceErrorMessage

====
